---- MODULE Spec2Model ----
(***************************************************************************)
(* Model of collaborative_prompt_forge.py: the retrying call wrapper       *)
(* call_gemini_api and the Streamlit script main() that drives it.         *)
(*                                                                         *)
(* call_gemini_api blocks its caller; it is split at its two suspension    *)
(* points, the requests.post of line 28 and the time.sleep of line 41.     *)
(***************************************************************************)
EXTENDS Integers, Sequences, FiniteSets, TLC

\* ------------------------------------------------------------------ bounds
\* Largest max_retries a caller passes (main always uses the default).
MaxRetriesBound == 3

\* ------------------------------------------------- JSON values (json.loads)
\* A parsed JSON value is a tagged record: null, a string, an array or an
\* object.  An object carries the set of keys it has.
Keys == {"candidates", "content", "parts", "text"}

Null == [t |-> "null"]
None == Null
Str(s) == [t |-> "str", s |-> s]
Arr(a) == [t |-> "arr", a |-> a]
ObjEmpty == [t |-> "obj", keys |-> {}, o |-> [k \in Keys |-> Null]]
Obj1(k, v) == [t |-> "obj", keys |-> {k}, o |-> [x \in Keys |-> IF x = k THEN v ELSE Null]]

\* A response body that json.loads rejects (e.g. the text "not json").
NotJson == [t |-> "notjson"]

\* Python truthiness of a value (the tests of lines 16, 32, 73, 90, 117, 129).
Truthy(v) ==
  CASE v.t = "null" -> FALSE
    [] v.t = "str"  -> v.s # ""
    [] v.t = "arr"  -> Len(v.a) > 0
    [] v.t = "obj"  -> v.keys # {}

\* The value or the exception of evaluating a Python expression.
Ok(v) == [exc |-> "", v |-> v]
Raise(e) == [exc |-> e, v |-> Null]

\* d.get(k): only a dict has .get
PyGet(d, k) ==
  IF d.t = "obj"
    THEN Ok(IF k \in d.keys THEN d.o[k] ELSE None)
    ELSE Raise("AttributeError")

\* d[k] for a string key k
PyItem(d, k) ==
  IF d.t = "obj"
    THEN IF k \in d.keys THEN Ok(d.o[k]) ELSE Raise("KeyError")
    ELSE Raise("TypeError")

\* First character of the strings the model uses.
StrHead(s) ==
  CASE s = "A detective in 2099..." -> "A"
    [] s = "Neon noir" -> "N"
    [] OTHER -> s

\* x[0]
PyItem0(x) ==
  CASE x.t = "arr"  -> IF Len(x.a) > 0 THEN Ok(x.a[1]) ELSE Raise("IndexError")
    [] x.t = "obj"  -> Raise("KeyError")
    [] x.t = "str"  -> IF x.s # "" THEN Ok(Str(StrHead(x.s))) ELSE Raise("IndexError")
    [] x.t = "null" -> Raise("TypeError")

\* r, then F on its value unless r raised
Then(r, F(_)) == IF r.exc # "" THEN r ELSE F(r.v)

\* result["candidates"][0]["content"]["parts"][0]   (lines 32 and 33)
FirstPart(result) ==
  Then(Then(Then(Then(PyItem(result, "candidates"),
                      LAMBDA c : PyItem0(c)),
                 LAMBDA c0 : PyItem(c0, "content")),
            LAMBDA ct : PyItem(ct, "parts")),
       LAMBDA ps : PyItem0(ps))

\* The condition of line 32:
\*   result.get("candidates") and result[...]["parts"][0].get("text")
\* `a and b` is a when a is falsy, else b.
TextCondition(result) ==
  Then(PyGet(result, "candidates"),
       LAMBDA c : IF ~Truthy(c) THEN Ok(c)
                  ELSE Then(FirstPart(result), LAMBDA p : PyGet(p, "text")))

\* lines 32-36 with the two branches exchanged
HandleBody_Inverted(result) ==
  LET cond == TextCondition(result) IN
  IF cond.exc # "" THEN [how |-> "raise", exc |-> cond.exc, v |-> None]
  ELSE IF ~Truthy(cond.v)
    THEN [how |-> "return", exc |-> "", v |-> cond.v]
    ELSE [how |-> "malformed", exc |-> "", v |-> None]

\* line 32 testing that "text" is there instead of that it is truthy
HandleBody_TextPresent(result) ==
  LET cond == TextCondition(result) IN
  IF cond.exc # "" THEN [how |-> "raise", exc |-> cond.exc, v |-> None]
  ELSE IF cond.v.t = "str"
    THEN [how |-> "return", exc |-> "", v |-> cond.v]
    ELSE [how |-> "malformed", exc |-> "", v |-> None]

\* Lines 31-36 on a parsed body: what the try block does.
\*   [how |-> "return", v]  line 33      [how |-> "malformed"]  lines 35-36
\*   [how |-> "raise", exc]  an exception no except clause of the call catches
HandleBody(result) ==
  LET cond == TextCondition(result) IN
  IF cond.exc # "" THEN [how |-> "raise", exc |-> cond.exc, v |-> None]
  ELSE IF Truthy(cond.v)
    THEN [how |-> "return", exc |-> "",
          v |-> Then(FirstPart(result), LAMBDA p : PyItem(p, "text")).v]
    ELSE [how |-> "malformed", exc |-> "", v |-> None]

\* ------------------------------------------------------ the remote endpoint
Texts == {"A detective in 2099...", "Neon noir"}

\* {"candidates": [{"content": {"parts": [part]}}]}
BodyWithPart(part) ==
  Obj1("candidates", Arr(<<Obj1("content", Obj1("parts", Arr(<<part>>)))>>))

WellFormed(txt) == BodyWithPart(Obj1("text", Str(txt)))

WellFormedBodies == {WellFormed(txt) : txt \in Texts}

\* Parsable bodies without a usable text.
OddBodies ==
  { ObjEmpty,                                   \* {}
    Obj1("candidates", Null),                   \* {"candidates": null}
    Obj1("candidates", Arr(<<>>)),              \* {"candidates": []}
    Obj1("candidates", Arr(<<ObjEmpty>>)),      \* candidate without content
    Obj1("candidates", Arr(<<Obj1("content", ObjEmpty)>>)),  \* no parts
    Obj1("candidates", Arr(<<Obj1("content", Obj1("parts", Arr(<<>>)))>>)),
    BodyWithPart(ObjEmpty),                     \* part without text
    BodyWithPart(Obj1("text", Str(""))),        \* empty text
    BodyWithPart(Obj1("text", Null)),           \* text: null
    Arr(<<>>) }                                 \* top level is not an object

Bodies == WellFormedBodies \cup OddBodies \cup {NotJson}

\* What requests.post / raise_for_status raise (lines 28-29); all are
\* subclasses of requests.exceptions.RequestException.
TransportErrors == {"ConnectionError", "Timeout", "HTTPError"}

\* The outcome of one attempt: a transport error, or a 2xx response body.
Outcomes ==
  {[err |-> e, body |-> Null] : e \in TransportErrors}
    \cup {[err |-> "", body |-> b] : b \in Bodies}

\* What response.json() raises on an unparsable body depends on the installed
\* requests: since 2.27 requests.exceptions.JSONDecodeError, a subclass of
\* both RequestException and json.JSONDecodeError; before, json.JSONDecodeError.
JsonErrorTypes == {"requests.JSONDecodeError", "json.JSONDecodeError"}

IsRequestException(e) == e \in TransportErrors \cup {"requests.JSONDecodeError"}
IsJSONDecodeError(e) == e \in JsonErrorTypes

\* The except clause that takes exception e: the clauses are tried in the
\* order they are written (line 37, then line 45).
ExceptClause(e) ==
  IF IsRequestException(e) THEN "RequestException"
  ELSE IF IsJSONDecodeError(e) THEN "JSONDecodeError"
  ELSE "uncaught"

\* ------------------------------------------------------------ UI messages
Msg(level, text, n, e) == [level |-> level, text |-> text, n |-> n, e |-> e]

ErrApiKey == Msg("error", "API Key not found.", 0, "")
ErrMalformed == Msg("error", "AI response was empty or malformed.", 0, "")
WarnAttempt(n, e) == Msg("warning", "Attempt failed", n, e)
ErrRetries == Msg("error", "Failed to get a response from the AI after multiple retries.", 0, "")
ErrDecode == Msg("error", "Failed to decode JSON response from AI.", 0, "")
ErrSuggestions == Msg("error", "Could not generate suggestions.", 0, "")
ErrSummary == Msg("error", "Could not generate the final summary.", 0, "")
WarnFinalize == Msg("warning", "Please finalize the prompt before executing generation.", 0, "")
ShownException(e) == Msg("exception", "Uncaught exception", 0, e)
ShownSummary(txt) == Msg("markdown", txt, 0, "")

\* ------------------------------------------------------------------ state
VARIABLES
  API_KEY,            \* line 9: the credential, "" when not configured
  jsonErrorType,      \* what response.json() raises in this installation
  session_state,      \* st.session_state: a dict
  mainPc,             \* "ready", or "blocked" inside a call_gemini_api call
  caller,             \* who made the current/last call
  raw_idea,           \* line 65
  final_prompt_text,  \* line 107
  ui,                 \* messages shown on the page in this run
  pc,                 \* call_gemini_api: "idle","post","sleep","returned","raised"
  prompt, system_instruction, max_retries,   \* its parameters
  attempt,            \* line 26
  ret,                \* the value returned
  exc,                \* the exception that left the call
  posts,              \* payloads sent by requests.post in this call
  sleeps,             \* durations slept by time.sleep in this call
  outcomes,           \* what each attempt of this call got back
  ssBefore,           \* session_state when the running action began
  lastSuccess,        \* the last suggestions call that returned a text
  peer                \* the frame of a call running in another thread

vars == <<API_KEY, jsonErrorType, session_state, mainPc, caller, raw_idea,
          final_prompt_text, ui, pc, prompt, system_instruction, max_retries,
          attempt, ret, exc, posts, sleeps, outcomes, ssBefore, lastSuccess,
          peer>>

frameVars == <<prompt, system_instruction, max_retries>>
envVars == <<API_KEY, jsonErrorType>>

\* ---------------------------------------------------------- call_gemini_api
DefaultMaxRetries == 3

\* line 16 written as `if API_KEY is None`
CredentialMissing_IsNone(key) == Str(key).t = "null"

\* line 16
CredentialMissing(key) == ~Truthy(Str(key))

\* lines 22-23 with the two texts exchanged
Payload_Swapped(p, s) == [contents |-> <<[parts |-> <<[text |-> s]>>]>>,
                          systemInstruction |-> [parts |-> <<[text |-> p]>>]]

\* lines 21-24
Payload(p, s) == [contents |-> <<[parts |-> <<[text |-> p]>>]>>,
                  systemInstruction |-> [parts |-> <<[text |-> s]>>]]

\* line 26: range(max_retries) has an element
LoopEntered(m) == m > 0

\* line 39 written as `attempt < max_retries`
RetriesLeft_OffByOne(a, m) == a < m

\* line 39
RetriesLeft(a, m) == a < m - 1

\* line 40 written as `2 * attempt`
SleepTime_Times(a) == 2 * a

\* line 40
SleepTime(a) == 2 ^ a

\* Entry of call_gemini_api(p, s, m) up to the first requests.post
\* (lines 14-26).  page is what the page shows when the call is made.
Enter(p, s, m, page) ==
  /\ prompt' = p /\ system_instruction' = s /\ max_retries' = m
  /\ posts' = <<>> /\ sleeps' = <<>> /\ outcomes' = <<>>
  /\ exc' = "" /\ ret' = None /\ attempt' = 0
  /\ IF CredentialMissing(API_KEY)
       THEN ui' = Append(page, ErrApiKey) /\ pc' = "returned"      \* 17-18
       ELSE /\ ui' = page
            /\ pc' = IF LoopEntered(m) THEN "post" ELSE "returned"   \* 26, 49

\* The exception raised inside the try block for outcome r, "" if none
\* (lines 28-31).
TryException(r, jsonErr) ==
  IF r.err # "" THEN r.err
  ELSE IF r.body = NotJson THEN jsonErr
  ELSE ""

\* One attempt: lines 27-47 for the outcome r of the request.
Post(r) ==
  /\ pc = "post"
  /\ posts' = Append(posts, Payload(prompt, system_instruction))
  /\ outcomes' = Append(outcomes, r)
  /\ LET e == TryException(r, jsonErrorType)
         clause == ExceptClause(e)
         h == HandleBody(r.body)
     IN
     IF e = "" THEN
       CASE h.how = "return" ->                                       \* 33
              ret' = h.v /\ pc' = "returned" /\ UNCHANGED <<ui, exc>>
         [] h.how = "malformed" ->                                    \* 35-36
              ret' = None /\ pc' = "returned" /\ ui' = Append(ui, ErrMalformed)
              /\ UNCHANGED exc
         [] h.how = "raise" ->                                        \* 32
              exc' = h.exc /\ pc' = "raised" /\ UNCHANGED <<ui, ret>>
     ELSE
       CASE clause = "RequestException" ->                            \* 37-44
              IF RetriesLeft(attempt, max_retries)
                THEN /\ ui' = Append(ui, WarnAttempt(attempt + 1, e))
                     /\ pc' = "sleep"
                     /\ UNCHANGED <<ret, exc>>
                ELSE /\ ui' = ui \o <<WarnAttempt(attempt + 1, e), ErrRetries>>
                     /\ ret' = None /\ pc' = "returned"
                     /\ UNCHANGED exc
         [] clause = "JSONDecodeError" ->                             \* 45-47
              ret' = None /\ pc' = "returned" /\ ui' = Append(ui, ErrDecode)
              /\ UNCHANGED exc
         [] clause = "uncaught" ->
              exc' = e /\ pc' = "raised" /\ UNCHANGED <<ui, ret>>
  /\ UNCHANGED <<envVars, peer, lastSuccess, session_state, mainPc, caller, raw_idea,
                 final_prompt_text, frameVars, attempt, sleeps, ssBefore>>

\* time.sleep(sleep_time) returns and the for loop takes its next value
\* (lines 40-41, 26).
Sleep ==
  /\ pc = "sleep"
  /\ sleeps' = Append(sleeps, SleepTime(attempt))
  /\ attempt' = attempt + 1
  /\ pc' = "post"
  /\ UNCHANGED <<envVars, peer, lastSuccess, session_state, mainPc, caller, raw_idea,
                 final_prompt_text, ui, frameVars, ret, exc, posts, outcomes,
                 ssBefore>>

AttemptStep == \E r \in Outcomes : Post(r)

\* --------------------------------------------------------------- main()
\* A Python dict with string keys is a function on the keys it has.
EmptyDict == [k \in {} |-> ""]
DictSet(d, k, v) == [x \in (DOMAIN d) \cup {k} |-> IF x = k THEN v ELSE d[x]]
DictGet(d, k, default) == IF k \in DOMAIN d THEN d[k] ELSE default

DefaultIdea == "A detective story set in the future."       \* line 67
SysSuggestions == "You are a creative brainstorming partner. ..."   \* 75-83
SysExecution == "You are a master storyteller. ..."         \* 119-123

\* What the user may have typed in the seed-idea box.
Ideas == {"", DefaultIdea, "A heist on the Moon."}

\* What the final-prompt box may hold: the pre-filled draft, an edit, nothing.
FinalTexts(ss) == {"", "A noir detective story on Mars.", DictGet(ss, "refined_prompt", "")}

\* Arguments of a call made by any other caller of call_gemini_api.
Prompts == {"", "Tell me a story"}
Instructions == {"", "Be brief"}

\* line 86
SuggestionsPrompt(idea) == "Rough Idea: " \o idea

\* line 93
RefinedPrompt(idea, suggestions) ==
  "Seed Idea: " \o idea \o "\n\nAI Suggestions:\n" \o suggestions

\* lines 91 and 93 with the draft filled in only when there is none yet
StoreSuggestions_KeepDraft(ss, idea, suggestions) ==
  LET s1 == DictSet(ss, "ai_suggestions", suggestions) IN
  IF "refined_prompt" \in DOMAIN ss THEN s1
  ELSE DictSet(s1, "refined_prompt", RefinedPrompt(idea, suggestions))

\* lines 91 and 93
StoreSuggestions(ss, idea, suggestions) ==
  DictSet(DictSet(ss, "ai_suggestions", suggestions),
          "refined_prompt", RefinedPrompt(idea, suggestions))

\* The record of a suggestions call that returned a text, and of none yet.
SuccessOf(idea, suggestions) == [ok |-> TRUE, seed |-> idea, text |-> suggestions]
NoSuccess == [ok |-> FALSE, seed |-> "", text |-> ""]

\* No call is running.
Quiet == mainPc = "ready" /\ pc \notin {"post", "sleep"}

\* A script run that makes no call: the frame of the last call is gone.
NoCall ==
  /\ pc' = "idle" /\ ret' = None /\ exc' = "" /\ attempt' = 0
  /\ posts' = <<>> /\ sleeps' = <<>> /\ outcomes' = <<>>
  /\ UNCHANGED frameVars

\* lines 72-88 without the test of line 73
PressSuggest_NoCheck(idea) ==
  /\ Quiet
  /\ raw_idea' = idea
  /\ caller' = "suggest"
  /\ ssBefore' = session_state
  /\ Enter(SuggestionsPrompt(idea), SysSuggestions, DefaultMaxRetries, <<>>)
  /\ mainPc' = "blocked"
  /\ UNCHANGED <<envVars, peer, lastSuccess, session_state, final_prompt_text>>

\* "Generate AI Suggestions" pressed with idea in the box: the script runs
\* from the top to the call of line 85 (lines 53-88).
PressSuggest(idea) ==
  /\ Quiet
  /\ raw_idea' = idea
  /\ caller' = "suggest"
  /\ ssBefore' = session_state
  /\ IF Truthy(Str(idea))                                            \* 73
       THEN /\ Enter(SuggestionsPrompt(idea), SysSuggestions, DefaultMaxRetries, <<>>)
            /\ mainPc' = "blocked"
       ELSE /\ NoCall
            /\ ui' = <<>>
            /\ mainPc' = "ready"
  /\ UNCHANGED <<envVars, peer, lastSuccess, session_state, final_prompt_text>>

\* lines 90-95 with the failure branch dropping what was stored
SuggestReturn_ClearOnFailure ==
  /\ mainPc = "blocked" /\ caller = "suggest" /\ pc = "returned"
  /\ IF Truthy(ret)
       THEN /\ session_state' = StoreSuggestions(session_state, raw_idea, ret.s)
            /\ ui' = ui
       ELSE /\ ui' = Append(ui, ErrSuggestions)
            /\ session_state' = EmptyDict
  /\ lastSuccess' = IF Truthy(ret) THEN SuccessOf(raw_idea, ret.s) ELSE lastSuccess
  /\ mainPc' = "ready"
  /\ UNCHANGED <<envVars, peer, caller, raw_idea, final_prompt_text, pc,
                 frameVars, attempt, ret, exc, posts, sleeps, outcomes, ssBefore>>

\* The call of line 85 returned: lines 90-95, then the rest of the script.
SuggestReturn ==
  /\ mainPc = "blocked" /\ caller = "suggest" /\ pc = "returned"
  /\ IF Truthy(ret)                                                  \* 90
       THEN /\ session_state' = StoreSuggestions(session_state, raw_idea, ret.s)
            /\ ui' = ui
       ELSE /\ ui' = Append(ui, ErrSuggestions)                      \* 95
            /\ UNCHANGED session_state
  /\ lastSuccess' = IF Truthy(ret) THEN SuccessOf(raw_idea, ret.s) ELSE lastSuccess
  /\ mainPc' = "ready"
  /\ UNCHANGED <<envVars, peer, caller, raw_idea, final_prompt_text, pc,
                 frameVars, attempt, ret, exc, posts, sleeps, outcomes, ssBefore>>

\* lines 116-127 without the test of line 102
PressExecute_NoGuard(text) ==
  /\ Quiet
  /\ final_prompt_text' = text
  /\ caller' = "execute"
  /\ ssBefore' = session_state
  /\ IF Truthy(Str(text))
       THEN /\ Enter(text, SysExecution, DefaultMaxRetries, <<>>)
            /\ mainPc' = "blocked"
       ELSE /\ NoCall
            /\ ui' = <<WarnFinalize>>
            /\ mainPc' = "ready"
  /\ UNCHANGED <<envVars, peer, lastSuccess, session_state, raw_idea>>

\* "Generate Final Story Summary" pressed with text in the final-prompt box;
\* the button exists only when suggestions are stored (lines 102-127).
PressExecute(text) ==
  /\ Quiet
  /\ "ai_suggestions" \in DOMAIN session_state                       \* 102
  /\ final_prompt_text' = text
  /\ caller' = "execute"
  /\ ssBefore' = session_state
  /\ IF Truthy(Str(text))                                            \* 117
       THEN /\ Enter(text, SysExecution, DefaultMaxRetries, <<>>)
            /\ mainPc' = "blocked"
       ELSE /\ NoCall
            /\ ui' = <<WarnFinalize>>                                \* 137
            /\ mainPc' = "ready"
  /\ UNCHANGED <<envVars, peer, lastSuccess, session_state, raw_idea>>

\* The call of line 124 returned: lines 129-134.
ExecuteReturn ==
  /\ mainPc = "blocked" /\ caller = "execute" /\ pc = "returned"
  /\ ui' = Append(ui, IF Truthy(ret) THEN ShownSummary(ret.s) ELSE ErrSummary)
  /\ mainPc' = "ready"
  /\ UNCHANGED <<envVars, peer, lastSuccess, session_state, caller, raw_idea, final_prompt_text,
                 pc, frameVars, attempt, ret, exc, posts, sleeps, outcomes,
                 ssBefore>>

\* An exception left call_gemini_api: nothing in main() catches it, the
\* script run ends there and Streamlit shows the exception on the page.
MainUnwind ==
  /\ mainPc = "blocked" /\ caller \in {"suggest", "execute"} /\ pc = "raised"
  /\ ui' = Append(ui, ShownException(exc))
  /\ mainPc' = "ready"
  /\ UNCHANGED <<envVars, peer, lastSuccess, session_state, caller, raw_idea, final_prompt_text,
                 pc, frameVars, attempt, ret, exc, posts, sleeps, outcomes,
                 ssBefore>>

\* Any other caller calls call_gemini_api(p, s, m).
DirectCall(p, s, m) ==
  /\ Quiet
  /\ caller' = "direct"
  /\ Enter(p, s, m, <<>>)
  /\ ssBefore' = session_state
  /\ UNCHANGED <<envVars, peer, lastSuccess, session_state, mainPc, raw_idea, final_prompt_text>>

\* ------------------------------------------------- a call in another thread
\* The locals of a call_gemini_api running in another thread (lines 14-49):
\* each call has its own max_retries, attempt, response and return value.
PeerIdle ==
  [pc |-> "idle", max_retries |-> DefaultMaxRetries, attempt |-> 0,
   ret |-> None, exc |-> "", posts |-> <<>>, sleeps |-> <<>>,
   outcomes |-> <<>>, ui |-> <<>>]

PeerPrompt == "Rough Idea: A heist on the Moon."
PeerInstruction == SysSuggestions

\* Lines 14-26 as a function: the frame of a call after its entry.
FrameEnter(key, m) ==
  [pc |-> IF CredentialMissing(key) THEN "returned"
          ELSE IF LoopEntered(m) THEN "post" ELSE "returned",
   max_retries |-> m, attempt |-> 0, ret |-> None, exc |-> "",
   posts |-> <<>>, sleeps |-> <<>>, outcomes |-> <<>>,
   ui |-> IF CredentialMissing(key) THEN <<ErrApiKey>> ELSE <<>>]

\* Lines 27-47 as a function: the frame after one attempt with outcome r.
FramePost(f, r, jsonErr) ==
  LET e == TryException(r, jsonErr)
      clause == ExceptClause(e)
      h == HandleBody(r.body)
      g == [f EXCEPT !.posts = Append(@, Payload(PeerPrompt, PeerInstruction)),
                     !.outcomes = Append(@, r)]
  IN
  IF e = "" THEN
    CASE h.how = "return" -> [g EXCEPT !.ret = h.v, !.pc = "returned"]
      [] h.how = "malformed" ->
           [g EXCEPT !.pc = "returned", !.ui = Append(@, ErrMalformed)]
      [] h.how = "raise" -> [g EXCEPT !.exc = h.exc, !.pc = "raised"]
  ELSE
    CASE clause = "RequestException" ->
           IF RetriesLeft(f.attempt, f.max_retries)
             THEN [g EXCEPT !.ui = Append(@, WarnAttempt(f.attempt + 1, e)),
                            !.pc = "sleep"]
             ELSE [g EXCEPT !.ui = @ \o <<WarnAttempt(f.attempt + 1, e), ErrRetries>>,
                            !.pc = "returned"]
      [] clause = "JSONDecodeError" ->
           [g EXCEPT !.pc = "returned", !.ui = Append(@, ErrDecode)]
      [] clause = "uncaught" -> [g EXCEPT !.exc = e, !.pc = "raised"]

\* Lines 40-41 and 26 as a function: the sleep is over, next attempt.
FrameSleep(f) ==
  [f EXCEPT !.sleeps = Append(@, SleepTime(f.attempt)),
            !.attempt = @ + 1, !.pc = "post"]

\* Another thread calls call_gemini_api(PeerPrompt, PeerInstruction, m).
PeerCall(m) ==
  /\ peer.pc \notin {"post", "sleep"}
  /\ peer' = FrameEnter(API_KEY, m)
  /\ UNCHANGED <<envVars, session_state, mainPc, caller, raw_idea,
                 final_prompt_text, ui, pc, frameVars, attempt, ret, exc,
                 posts, sleeps, outcomes, ssBefore, lastSuccess>>

\* One attempt of the other thread's call.
PeerPost(r) ==
  /\ peer.pc = "post"
  /\ peer' = FramePost(peer, r, jsonErrorType)
  /\ UNCHANGED <<envVars, session_state, mainPc, caller, raw_idea,
                 final_prompt_text, ui, pc, frameVars, attempt, ret, exc,
                 posts, sleeps, outcomes, ssBefore, lastSuccess>>

\* lines 40-41 with `attempt` kept in a module-level variable
PeerSleep_SharedAttempt ==
  /\ peer.pc = "sleep"
  /\ peer' = FrameSleep(peer)
  /\ attempt' = attempt + 1
  /\ UNCHANGED <<envVars, session_state, mainPc, caller, raw_idea,
                 final_prompt_text, ui, pc, frameVars, ret, exc,
                 posts, sleeps, outcomes, ssBefore, lastSuccess>>

\* The other thread's time.sleep returns.
PeerSleep ==
  /\ peer.pc = "sleep"
  /\ peer' = FrameSleep(peer)
  /\ UNCHANGED <<envVars, session_state, mainPc, caller, raw_idea,
                 final_prompt_text, ui, pc, frameVars, attempt, ret, exc,
                 posts, sleeps, outcomes, ssBefore, lastSuccess>>

\* ------------------------------------------------------------ specification
Init ==
  /\ API_KEY \in {"", "secret-key"}
  /\ jsonErrorType \in JsonErrorTypes
  /\ session_state = EmptyDict
  /\ mainPc = "ready"
  /\ caller = "none"
  /\ raw_idea = DefaultIdea
  /\ final_prompt_text = ""
  /\ ui = <<>>
  /\ pc = "idle"
  /\ prompt = "" /\ system_instruction = "" /\ max_retries = DefaultMaxRetries
  /\ attempt = 0
  /\ ret = None
  /\ exc = ""
  /\ posts = <<>> /\ sleeps = <<>> /\ outcomes = <<>>
  /\ ssBefore = EmptyDict
  /\ lastSuccess = NoSuccess
  /\ peer = PeerIdle

Suggest == \E idea \in Ideas : PressSuggest(idea)
Execute == \E text \in FinalTexts(session_state) : PressExecute(text)
Direct == \E p \in Prompts, s \in Instructions, m \in 0..MaxRetriesBound : DirectCall(p, s, m)

Next ==
  \/ Suggest
  \/ SuggestReturn
  \/ Execute
  \/ ExecuteReturn
  \/ MainUnwind
  \/ Direct
  \/ AttemptStep
  \/ Sleep

Spec == Init /\ [][Next]_vars

\* Two threads, each calling call_gemini_api over and over; the endpoint
\* answers each attempt with one of ConcOutcomes.
ConcOutcomes ==
  {[err |-> e, body |-> Null] : e \in {"ConnectionError", "HTTPError"}}
    \cup {[err |-> "", body |-> b] :
            b \in {NotJson, WellFormed("Neon noir"), ObjEmpty, Arr(<<>>)}}

ConcCall == \E m \in 0..MaxRetriesBound : DirectCall("Tell me a story", "Be brief", m)
ConcAttempt == \E r \in ConcOutcomes : Post(r)
PeerStart == \E m \in 0..MaxRetriesBound : PeerCall(m)
PeerAttempt == \E r \in ConcOutcomes : PeerPost(r)

ConcNext ==
  \/ ConcCall
  \/ ConcAttempt
  \/ Sleep
  \/ PeerStart
  \/ PeerAttempt
  \/ PeerSleep

ConcSpec == Init /\ [][ConcNext]_vars

\* The same, with every request and every sleep completing.
FairSpec == Spec /\ WF_vars(AttemptStep) /\ WF_vars(Sleep)

\* ------------------------------------------------------- derived notions
RECURSIVE SumSeq(_)
SumSeq(q) == IF q = <<>> THEN 0 ELSE Head(q) + SumSeq(Tail(q))

\* sum(2^i for i in 0..n-1)
RECURSIVE SumPow2(_)
SumPow2(n) == IF n <= 0 THEN 0 ELSE 2 ^ (n - 1) + SumPow2(n - 1)

Requests == Len(posts)
TotalSlept == SumSeq(sleeps)
Done == pc \in {"returned", "raised"}

\* The error kind a message of the call client stands for.
KindOfMsg(m) ==
  CASE m = ErrApiKey -> "MissingCredential"
    [] m = ErrRetries -> "TransportExhausted"
    [] m = ErrMalformed -> "MalformedResponse"
    [] m = ErrDecode -> "ParseError"
    [] OTHER -> ""

FailureKinds == {KindOfMsg(ui[i]) : i \in DOMAIN ui} \ {""}

Success == pc = "returned" /\ Truthy(ret)
Failure(kind) == pc = "returned" /\ ret = None /\ FailureKinds = {kind}

TransportFailure(r) == r.err \in TransportErrors
AllTransport(q) == \A i \in DOMAIN q : TransportFailure(q[i])
FirstOutcomeBody(bodies) ==
  Len(outcomes) >= 1 /\ outcomes[1].err = "" /\ outcomes[1].body \in bodies

\* ------------------------------------------------------------------ claims

\* C1: a call made while no credential is configured returns
\* Failure(MissingCredential), sends no request and never sleeps, whatever
\* its arguments.
C1_MissingCredential ==
  (API_KEY = "" /\ pc # "idle") =>
    /\ Failure("MissingCredential")
    /\ Requests = 0
    /\ Len(sleeps) = 0

C1_Witness ==
  /\ API_KEY = "" /\ caller = "direct" /\ pc = "returned"
  /\ max_retries = 2 /\ prompt # "" /\ system_instruction = ""

\* C2 (as stated): with a credential, a finished call all of whose attempts
\* were transport failures sent max_retries requests, slept
\* sum(2^i, i in 0..max_retries-2) in total and returned
\* Failure(TransportExhausted).
C2_Original ==
  (API_KEY # "" /\ pc = "returned" /\ AllTransport(outcomes)) =>
    /\ Requests = max_retries
    /\ TotalSlept = SumPow2(max_retries - 1)
    /\ Failure("TransportExhausted")

\* C3 (as stated): a call whose response body is unparsable returns
\* Failure(ParseError) after that one attempt, without retry or sleep.
C3_Original ==
  FirstOutcomeBody({NotJson}) =>
    /\ Failure("ParseError")
    /\ Requests = 1
    /\ Len(sleeps) = 0

\* The bodies that are valid JSON but lack the text field or have another
\* shape than candidates[0].content.parts[0].text.
ShapeMismatchBodies == OddBodies \ {BodyWithPart(Obj1("text", Str("")))}

\* C4 (as stated): a 2xx body that is valid JSON but lacks the text field or
\* has an unexpected shape gives Failure(MalformedResponse) after exactly
\* one attempt.
C4_Original ==
  FirstOutcomeBody(ShapeMismatchBodies) =>
    /\ Failure("MalformedResponse")
    /\ Requests = 1
    /\ Len(sleeps) = 0

\* C5 (as stated): a finished call has returned, never raised, and its
\* result is Success(text) or a Failure of exactly one of the four kinds.
C5_Original ==
  Done =>
    /\ pc = "returned"
    /\ \/ Success
       \/ \E kind \in {"MissingCredential", "TransportExhausted",
                       "MalformedResponse", "ParseError"} : Failure(kind)

\* C6: when the first attempt gets a well-formed body, the call has sent
\* exactly one request, has not slept, and returns Success with that body's
\* candidates[0].content.parts[0].text.
C6_FirstAttemptSuccess ==
  FirstOutcomeBody(WellFormedBodies) =>
    /\ Success
    /\ \E txt \in Texts : outcomes[1].body = WellFormed(txt) /\ ret = Str(txt)
    /\ Requests = 1
    /\ Len(sleeps) = 0
    /\ FailureKinds = {}

C6_Witness ==
  /\ FirstOutcomeBody({WellFormed("Neon noir")})
  /\ pc = "returned" /\ ret = Str("Neon noir") /\ Requests = 1

\* C7: when the first k attempts are transport failures and attempt k+1
\* gets a well-formed body, the call returns Success with that body's text
\* after exactly k+1 requests and sum(2^i, i in 0..k-1) of backoff; with
\* max_retries = 3 and k = 2 that is 3 requests and 3 time-units.
C7_SuccessAfterFailures ==
  \A k \in 0..Len(outcomes) - 1 :
    ( /\ Len(outcomes) = k + 1
      /\ AllTransport(SubSeq(outcomes, 1, k))
      /\ outcomes[k + 1].err = ""
      /\ outcomes[k + 1].body \in WellFormedBodies ) =>
        /\ Success
        /\ \E txt \in Texts : outcomes[k + 1].body = WellFormed(txt) /\ ret = Str(txt)
        /\ Requests = k + 1
        /\ k < max_retries
        /\ Len(sleeps) = k
        /\ TotalSlept = SumPow2(k)
        /\ (max_retries = 3 /\ k = 2) => (Requests = 3 /\ TotalSlept = 1 + 2)

C7_Witness ==
  /\ max_retries = 3 /\ Len(outcomes) = 3
  /\ AllTransport(SubSeq(outcomes, 1, 2))
  /\ outcomes[3].body = WellFormed("A detective in 2099...")
  /\ ret = Str("A detective in 2099...")
  /\ Requests = 3 /\ sleeps = <<1, 2>>

\* C8: when a call made by either button fails, an error message is on the
\* page and session_state is what it was when the button was pressed;
\* session_state differs from that only after the suggestions call
\* returned Success.
C8_FailureLeavesSession ==
  /\ ( /\ caller \in {"suggest", "execute"} /\ mainPc = "ready"
       /\ pc = "returned" /\ ~Truthy(ret) ) =>
        /\ session_state = ssBefore
        /\ \E i \in DOMAIN ui :
             ui[i] = (IF caller = "suggest" THEN ErrSuggestions ELSE ErrSummary)
  /\ ( /\ caller \in {"suggest", "execute"} /\ mainPc = "ready"
       /\ pc = "raised" ) =>
        /\ session_state = ssBefore
        /\ \E i \in DOMAIN ui : ui[i].level = "exception"
  /\ session_state # ssBefore =>
        (caller = "suggest" /\ mainPc = "ready" /\ Success)

C8_Witness ==
  /\ caller = "suggest" /\ mainPc = "ready" /\ pc = "returned" /\ ret = None
  /\ "ai_suggestions" \in DOMAIN session_state
  /\ Failure("TransportExhausted")

\* C9 (as stated): a call starts at attempt 0 with nothing sent or slept,
\* whatever the last call left; from Attempting(n) it goes to Success, to
\* Failed, or through the backoff to Attempting(n+1); attempt grows by one
\* only after a transport failure with attempts remaining; a finished call
\* sends and sleeps no more.
C9_Step ==
  /\ (pc \notin {"post", "sleep"} /\ pc' = "post") =>
        (attempt' = 0 /\ posts' = <<>> /\ sleeps' = <<>>)
  /\ (pc = "post" /\ pc' # "post") =>
        \/ pc' = "returned"
        \/ pc' = "sleep" /\ TransportFailure(outcomes'[Len(outcomes')])
  /\ (pc \in {"post", "sleep"} /\ attempt' # attempt) =>
        /\ attempt' = attempt + 1
        /\ pc = "sleep" /\ pc' = "post"
        /\ TransportFailure(outcomes[Len(outcomes)])
        /\ attempt < max_retries - 1
  /\ Done => (posts' = posts /\ sleeps' = sleeps) \/ (posts' = <<>> /\ sleeps' = <<>>)

C9_Original == [][C9_Step]_vars

\* C10 (as stated): when every request and every sleep completes, a call
\* that is attempting or backing off eventually reaches Success or Failed,
\* having sent at most max_retries requests and slept at most
\* max_retries - 1 times.
C10_Original ==
  (pc \in {"post", "sleep"}) ~>
    ( /\ pc = "returned"
      /\ Requests <= max_retries
      /\ Len(sleeps) <= max_retries - 1 )

\* The "Attempt n failed: e" warnings on the page (line 38), as indices of ui.
AttemptWarnings == {j \in DOMAIN ui : ui[j].level = "warning" /\ ui[j].n > 0}
TransportFailuresSeen == {i \in DOMAIN outcomes : TransportFailure(outcomes[i])}

\* C11 (as stated): the failure of attempt n is surfaced, as a warning that
\* names attempt n+1 and the error, before the sleep that follows it, before
\* attempt n+1 is sent and before the final failure message; so there are
\* always as many attempt warnings as transport failures seen so far.
C11_Original ==
  /\ Cardinality(AttemptWarnings) = Cardinality(TransportFailuresSeen)
  /\ \A i \in TransportFailuresSeen :
       \E j \in AttemptWarnings : ui[j] = WarnAttempt(i, outcomes[i].err)
  /\ Len(sleeps) <= Cardinality(AttemptWarnings)
  /\ \A j \in DOMAIN ui :
       ui[j] = ErrRetries => (j > 1 /\ j - 1 \in AttemptWarnings)

\* The frame of a call that runs alone and gets the outcomes outs, from f.
RECURSIVE RunAlone(_, _, _)
RunAlone(f, outs, jsonErr) ==
  IF outs = <<>> THEN f
  ELSE LET g == IF f.pc = "sleep" THEN FrameSleep(f) ELSE f IN
       IF g.pc # "post" THEN g
       ELSE RunAlone(FramePost(g, Head(outs), jsonErr), Tail(outs), jsonErr)

\* What a call that got outs may look like: as RunAlone leaves it, or with
\* the pending sleep over.
AloneFrames(m, outs) ==
  LET f == RunAlone(FrameEnter(API_KEY, m), outs, jsonErrorType) IN
  {f} \cup (IF f.pc = "sleep" THEN {FrameSleep(f)} ELSE {})

\* The observable part of a frame: requests, sleeps, result.
Observed(f) ==
  [pc |-> f.pc, attempt |-> f.attempt, requests |-> Len(f.posts),
   sleeps |-> f.sleeps, ret |-> f.ret, exc |-> f.exc, ui |-> f.ui]

MainFrame ==
  [pc |-> pc, max_retries |-> max_retries, attempt |-> attempt, ret |-> ret,
   exc |-> exc, posts |-> posts, sleeps |-> sleeps, outcomes |-> outcomes,
   ui |-> ui]

mainVars == <<pc, prompt, system_instruction, max_retries, attempt, ret, exc,
              posts, sleeps, outcomes, ui>>

\* C12: when two calls run concurrently, in every interleaving each call's
\* attempt counter, requests, sleeps, messages and result are those of a
\* call running alone with the same outcomes; no step changes the
\* credential, and a step of one call changes nothing of the other.
C12_Frames ==
  /\ pc # "idle" =>
       Observed(MainFrame) \in {Observed(f) : f \in AloneFrames(max_retries, outcomes)}
  /\ peer.pc # "idle" =>
       Observed(peer) \in {Observed(f) : f \in AloneFrames(peer.max_retries, peer.outcomes)}

C12_Step ==
  /\ API_KEY' = API_KEY
  /\ peer' # peer => UNCHANGED mainVars
  /\ ~(UNCHANGED mainVars) => peer' = peer

C12_Independent == []C12_Frames /\ [][C12_Step]_vars

C12_Witness ==
  /\ pc = "post" /\ attempt = 1 /\ max_retries = 2 /\ sleeps = <<1>>
  /\ peer.pc = "returned" /\ peer.max_retries = 3 /\ peer.sleeps = <<1, 2>>
  /\ peer.ret = Str("Neon noir") /\ Len(peer.posts) = 3

\* The final failure message stands directly after the warning that names
\* attempt n and error e.
ExhaustedWithDetail(n, e) ==
  \E j \in DOMAIN ui : j > 1 /\ ui[j] = ErrRetries /\ ui[j - 1] = WarnAttempt(n, e)

\* C13: a transport failure at attempt n < max_retries - 1 is followed by a
\* sleep of exactly 2^n and then attempt n+1; at n = max_retries - 1 the call
\* returns Failure(TransportExhausted), the last error shown with it, without
\* sleeping.  The i-th sleep follows the i-th attempt, so none precedes
\* attempt 0 or follows the last attempt, and HTTPError is treated as
\* ConnectionError and Timeout are.
C13_Backoff ==
  (API_KEY # "" /\ pc # "idle") =>
    /\ \A i \in DOMAIN sleeps :
         sleeps[i] = 2 ^ (i - 1) /\ i <= Len(outcomes) /\ i <= max_retries - 1
    /\ (Len(outcomes) >= 1 /\ TransportFailure(outcomes[Len(outcomes)])) =>
         LET n == Len(outcomes) - 1 IN
         IF n < max_retries - 1
           THEN \/ pc = "sleep" /\ attempt = n /\ Len(sleeps) = n
                \/ /\ pc = "post" /\ attempt = n + 1
                   /\ Len(sleeps) = n + 1 /\ sleeps[n + 1] = 2 ^ n
           ELSE /\ Failure("TransportExhausted")
                /\ ExhaustedWithDetail(max_retries, outcomes[n + 1].err)
                /\ Requests = max_retries
                /\ Len(sleeps) = n

C13_Witness ==
  /\ pc = "returned" /\ max_retries = 3
  /\ Len(outcomes) = 3
  /\ outcomes[1].err = "ConnectionError" /\ outcomes[2].err = "Timeout"
  /\ outcomes[3].err = "HTTPError"
  /\ sleeps = <<1, 2>>
  /\ ExhaustedWithDetail(3, "HTTPError")

\* C14: every request of a call has the call's prompt as the one user
\* content part and its system_instruction as the systemInstruction part;
\* a call made by main() has a non-empty system instruction (the fixed text
\* of its phase); every retry sends what the first attempt sent.
C14_Requests ==
  /\ \A i \in DOMAIN posts :
       /\ posts[i].contents = <<[parts |-> <<[text |-> prompt]>>]>>
       /\ posts[i].systemInstruction = [parts |-> <<[text |-> system_instruction]>>]
       /\ posts[i] = posts[1]
  /\ (caller = "suggest" /\ pc # "idle") =>
       /\ system_instruction = SysSuggestions /\ system_instruction # ""
       /\ prompt = "Rough Idea: " \o raw_idea
  /\ (caller = "execute" /\ pc # "idle") =>
       /\ system_instruction = SysExecution /\ system_instruction # ""
       /\ prompt = final_prompt_text

C14_Witness ==
  /\ caller = "execute" /\ Len(posts) = 3
  /\ prompt = "A noir detective story on Mars."
  /\ posts[3].systemInstruction.parts[1].text = SysExecution

EmptyTextBodies ==
  {BodyWithPart(Obj1("text", Str(""))), Obj1("candidates", Arr(<<>>))}

Shown(m) == \E j \in DOMAIN ui : ui[j] = m

\* C15: a returned value other than None is a non-empty text; a 2xx body
\* whose text is "" or whose candidates array is empty is reported as
\* malformed after one attempt; so main() stores or shows every returned
\* text and never takes it for a failure.
C15_NonEmptySuccess ==
  /\ (pc = "returned" /\ ret # None) => (ret.t = "str" /\ ret.s # "")
  /\ FirstOutcomeBody(EmptyTextBodies) =>
       (Failure("MalformedResponse") /\ Requests = 1 /\ Len(sleeps) = 0)
  /\ (caller = "suggest" /\ mainPc = "ready" /\ pc = "returned" /\ ret # None) =>
       /\ "ai_suggestions" \in DOMAIN session_state
       /\ session_state["ai_suggestions"] = ret.s
       /\ ~Shown(ErrSuggestions)
  /\ (caller = "execute" /\ mainPc = "ready" /\ pc = "returned" /\ ret # None) =>
       (Shown(ShownSummary(ret.s)) /\ ~Shown(ErrSummary))

C15_Witness ==
  /\ FirstOutcomeBody({BodyWithPart(Obj1("text", Str("")))})
  /\ caller = "suggest" /\ mainPc = "ready" /\ pc = "returned" /\ ret = None
  /\ Shown(ErrMalformed) /\ Shown(ErrSuggestions)

SuggestionsStored == "ai_suggestions" \in DOMAIN session_state

\* C16: the final-generation button is pressed, and its call made, only
\* when suggestions are stored, and they are stored only after a
\* suggestions call returned a text; no step removes stored suggestions,
\* whatever fails later.
C16_Inv ==
  /\ caller = "execute" => SuggestionsStored
  /\ SuggestionsStored => lastSuccess.ok

C16_Step == SuggestionsStored => SuggestionsStored'

C16_Phase3 == []C16_Inv /\ [][C16_Step]_vars

\* A final-generation call is running although the last suggestions call,
\* for another idea than the stored one, did not return a text.
C16_Witness ==
  /\ caller = "execute" /\ pc = "post" /\ attempt = 1
  /\ lastSuccess.ok /\ raw_idea # "" /\ raw_idea # lastSuccess.seed

\* C17: session_state holds neither ai_suggestions nor refined_prompt, or
\* both, and then ai_suggestions is the text of the most recent suggestions
\* call that returned one and refined_prompt is
\* "Seed Idea: <seed>\n\nAI Suggestions:\n<text>" for that call's seed idea.
C17_StoredTogether ==
  /\ DOMAIN session_state \in {{}, {"ai_suggestions", "refined_prompt"}}
  /\ SuggestionsStored <=> lastSuccess.ok
  /\ SuggestionsStored =>
       /\ session_state["ai_suggestions"] = lastSuccess.text
       /\ session_state["refined_prompt"] =
            "Seed Idea: " \o lastSuccess.seed \o "\n\nAI Suggestions:\n"
              \o lastSuccess.text

\* A second successful suggestions call, for another idea and with another
\* text, has replaced what the first one stored.
C17_Witness ==
  /\ caller = "suggest" /\ mainPc = "ready" /\ pc = "returned"
  /\ lastSuccess = SuccessOf("A heist on the Moon.", "Neon noir")
  /\ "ai_suggestions" \in DOMAIN ssBefore
  /\ ssBefore["ai_suggestions"] = "A detective in 2099..."
  /\ session_state["ai_suggestions"] = "Neon noir"

\* This script run made no call: no frame, no request, no sleep.
NoCallMade == pc = "idle" /\ posts = <<>> /\ sleeps = <<>> /\ mainPc = "ready"

\* C18: pressing "Generate AI Suggestions" with an empty seed idea, or
\* "Generate Final Story Summary" with an empty final prompt, makes no call
\* and no request and leaves session_state as it was; the empty final
\* prompt shows the warning of line 137.
C18_EmptyInput ==
  /\ (caller = "suggest" /\ raw_idea = "") =>
       (NoCallMade /\ session_state = ssBefore)
  /\ (caller = "execute" /\ final_prompt_text = "") =>
       (NoCallMade /\ session_state = ssBefore /\ Shown(WarnFinalize))

\* Both buttons were pressed with an empty box, the second just now.
C18_Witness ==
  /\ caller = "execute" /\ final_prompt_text = "" /\ raw_idea = ""
  /\ Shown(WarnFinalize) /\ SuggestionsStored /\ pc = "idle"

====
